---------------------------- MODULE Spec2Model ----------------------------
(***************************************************************************)
(* A model of the data pipeline of neural-prnu-extractor:                  *)
(*   - img_to_patches    (src/ffdnet/dataset.py)      SpecPatches          *)
(*   - prepare_data      (src/ffdnet/dataset.py)      SpecPrepare          *)
(*   - Dataset           (src/ffdnet/dataset.py)      SpecDataset          *)
(*   - estimate_noise    (src/ffdnet/utils/train_utils.py)  SpecNoise      *)
(* Each component has its own variables, initial condition and next-state  *)
(* relation; a component that a specification does not run stays parked.   *)
(* Arrays are functions over 0-based index tuples, as numpy indexes them.  *)
(***************************************************************************)
EXTENDS Integers, Sequences, FiniteSets, TLC

VARIABLES
  \* img_to_patches
  shape,            \* img.shape = <<endc, endw, endh>>
  win, stride,      \* the arguments
  pi, pj, k,        \* the loop indices i, j and the running plane counter k
  res,              \* the (endc, win*win, total_pat_num) work array
  ret,              \* the returned array: [shape |-> ..., data |-> ...]
  ppc,              \* "loop" | "returned" | "parked"
  \* prepare_data
  args,             \* [C, n_files, total_patches]: channels, len(files), total_patches
  n_patches,        \* history: patches.shape[3] of every file read so far
  train_num, val_num, fi, nx, reminder, already_picked,
  perm,             \* the order np.random.shuffle gave to axis 0 of patches
  trainStore,       \* the training store: entry j (1-based) is the data under key str(j-1)
  taken,            \* history: <<file, nx>> of every entry written
  valStore,         \* the validation store (empty while none is built)
  vi,               \* validation files still to store
  bpc,              \* "train" | "inner" | "val" | "valloop" | "total" | "done" | "parked"
  outcome,          \* "running" | "returned" | "NameError"
  retval,           \* the value prepare_data returned (<<>> stands for None)
  \* Dataset
  dsStore,          \* the store file: sequence of [key, value] in write order
  keys,             \* self.keys
  shuffle,          \* the shuffle argument of the constructor
  openHandles,      \* h5py.File objects opened and not closed
  index,            \* the argument of the __getitem__ call in progress
  got,              \* the last __getitem__ call: [kind, value], kind "none" | "pending" |
                    \* "returned" | "IndexError"
  dpc,              \* "build" | "init" | "idle" | "lookup" | "read" | "parked"
  \* estimate_noise
  method, wavelet_method, image_list,
  raw,              \* history: what the filter returned for each sample
  filtered_images, noises,
  ni,               \* the loop index i
  reads,            \* number of images read so far
  npc               \* "start" | "alloc" | "loop" | "returned" | "AssertionError" | "parked"

patchVars   == <<shape, win, stride, pi, pj, k, res, ret, ppc>>
prepareVars == <<args, n_patches, train_num, val_num, fi, nx, reminder, already_picked, perm,
                 trainStore, taken, valStore, vi, bpc, outcome, retval>>
datasetVars == <<dsStore, keys, shuffle, openHandles, index, got, dpc>>
noiseVars   == <<method, wavelet_method, image_list, raw, filtered_images, noises,
                 ni, reads, npc>>
vars == <<patchVars, prepareVars, datasetVars, noiseVars>>

\* What the actions of one component leave alone: the other components.
notPatch   == <<prepareVars, datasetVars, noiseVars>>
notPrepare == <<patchVars, datasetVars, noiseVars>>
notDataset == <<patchVars, prepareVars, noiseVars>>
notNoise   == <<patchVars, prepareVars, datasetVars>>

Min(a, b) == IF a <= b THEN a ELSE b

(***************************************************************************)
(* Bounds of the model.                                                    *)
(***************************************************************************)
MaxDim    == 4    \* image height and width range over 1..MaxDim
MaxStride == 3    \* stride ranges over 1..MaxStride
MaxFiles   == 3   \* 1..MaxFiles training files
MaxPatches == 2   \* a file yields 1..MaxPatches patches
MaxTotal   == 5   \* total_patches ranges over 0..MaxTotal
MaxVal     == 1   \* 0..MaxVal validation files
MaxEntries  == 11 \* a store holds 0..MaxEntries entries
MaxShuffled == 3  \* shuffle = True is modelled on stores of at most MaxShuffled entries
MaxOpen     == 2  \* __getitem__ is called while fewer than MaxOpen handles are open
IndexSlack  == 2  \* an index ranges over -(N + IndexSlack) .. N - 1 + IndexSlack
MaxBatch    == 2  \* a batch holds 1..MaxBatch images

(***************************************************************************)
(* img_to_patches(img, win, stride)                                        *)
(***************************************************************************)

\* The image: every position holds a value of its own, so that two array
\* elements are equal exactly when they come from the same pixel.
Pixel(c, h, w) == 100 * c + 10 * h + w

\* The channel counts of an image (C = 1 grayscale, C = 3 RGB).
Channels == {1, 3}

\* A slice length that rounds down: drops the last window of a ragged grid.
SliceLenOffByOne(start, stop, step) ==
  IF stop <= start THEN 0 ELSE (stop - start) \div step

\* len(range(start, stop, step)): the length of the slice start:stop:step of
\* an axis that is at least stop long.
SliceLen(start, stop, step) ==
  IF stop <= start THEN 0 ELSE ((stop - start - 1) \div step) + 1

\* img[:, i:endw-win+i+1:stride, j:endh-win+j+1:stride] as
\* [shape |-> <<endc, rows, cols>>, data |-> [<<c, r, q>> |-> value]].
StridedSlice(sh, w, s, i, j) ==
  LET rows == SliceLen(i, sh[2] - w + i + 1, s)
      cols == SliceLen(j, sh[3] - w + j + 1, s)
  IN  [shape |-> <<sh[1], rows, cols>>,
       data  |-> [x \in (0 .. sh[1] - 1) \X (0 .. rows - 1) \X (0 .. cols - 1) |->
                    Pixel(x[1], i + x[2] * s, j + x[3] * s)]]

\* total_pat_num = patch.shape[1] * patch.shape[2] of the slice at offset (0, 0).
TotalPatNum(sh, w, s) ==
  LET p == StridedSlice(sh, w, s, 0, 0) IN p.shape[2] * p.shape[3]

\* The element at row-major (C order) flat offset o of a 3-D array.
FlatGet3(a, o) ==
  LET d2 == a.shape[2]
      d3 == a.shape[3]
  IN  a.data[<<o \div (d2 * d3), (o % (d2 * d3)) \div d3, o % d3>>]

\* np.array(patch[:]).reshape(endc, total): same flat order, new index.
Reshape2(a, endc, total) ==
  [x \in (0 .. endc - 1) \X (0 .. total - 1) |-> FlatGet3(a, x[1] * total + x[2])]

\* res.reshape([endc, win, win, total]) of the (endc, win*win, total) array.
Reshape4(r, endc, w, total) ==
  [shape |-> <<endc, w, w, total>>,
   data  |-> [x \in (0 .. endc - 1) \X (0 .. w - 1) \X (0 .. w - 1) \X (0 .. total - 1) |->
                LET o == ((x[1] * w + x[2]) * w + x[3]) * total + x[4]
                IN  r[<<o \div (w * w * total), (o % (w * w * total)) \div total,
                        o % total>>]]]

\* np.zeros([endc, win*win, total_pat_num]).
ZeroRes(sh, w, s) ==
  [x \in (0 .. sh[1] - 1) \X (0 .. w * w - 1) \X (0 .. TotalPatNum(sh, w, s) - 1) |-> 0]

PatchParked ==
  /\ shape = <<1, 1, 1>> /\ win = 1 /\ stride = 1
  /\ pi = 0 /\ pj = 0 /\ k = 0
  /\ res = <<>> /\ ret = "None" /\ ppc = "parked"

\* A call with an image of shape (C, H, W), win <= min(H, W) and stride >= 1,
\* up to the first loop iteration.
PatchInit ==
  /\ shape \in Channels \X (1 .. MaxDim) \X (1 .. MaxDim)
  /\ win \in 1 .. Min(shape[2], shape[3])
  /\ stride \in 1 .. MaxStride
  /\ pi = 0 /\ pj = 0 /\ k = 0
  /\ res = ZeroRes(shape, win, stride)
  /\ ret = "None"
  /\ ppc = "loop"

\* One iteration of the inner loop: res[:, k, :] = patch.reshape(...); k = k + 1.
PatchStep ==
  /\ UNCHANGED notPatch
  /\ ppc = "loop"
  /\ pi < win
  /\ LET total == TotalPatNum(shape, win, stride)
         plane == Reshape2(StridedSlice(shape, win, stride, pi, pj), shape[1], total)
     IN  res' = [x \in DOMAIN res |->
                   IF x[2] = k THEN plane[<<x[1], x[3]>>] ELSE res[x]]
  /\ k' = k + 1
  /\ IF pj + 1 < win
       THEN pj' = pj + 1 /\ pi' = pi
       ELSE pj' = 0 /\ pi' = pi + 1
  /\ UNCHANGED <<shape, win, stride, ret, ppc>>

\* return res.reshape([endc, win, win, total_pat_num])
PatchReturn ==
  /\ UNCHANGED notPatch
  /\ ppc = "loop"
  /\ pi >= win
  /\ ret' = Reshape4(res, shape[1], win, TotalPatNum(shape, win, stride))
  /\ ppc' = "returned"
  /\ UNCHANGED <<shape, win, stride, pi, pj, k, res>>

PatchNext == PatchStep \/ PatchReturn

(***************************************************************************)
(* prepare_data(data_path, val_data_path, patch_size, stride, train_file,  *)
(*              val_file, total_patches, gray_mode)                        *)
(***************************************************************************)

\* The bijections of 0..n-1: the orders np.random.shuffle can give to an axis
\* of length n.
Perms(n) ==
  {f \in [0 .. n - 1 -> 0 .. n - 1] : \A a, b \in 0 .. n - 1 : f[a] = f[b] => a = b}

\* Patch number p of what img_to_patches returns for file f (1-based), as
\* patches[:, :, :, p]: channel c holds plane c of that window.  A plane is
\* named by <<channel, file, position>>: distinct planes hold distinct pixels.
ExtractedPatch(C, f, p) == [c \in 0 .. C - 1 |-> <<c, f, p>>]

\* patches[:, :, :, p] after np.random.shuffle(patches), which reorders the
\* first axis of the array, the channel axis: slot c holds plane order[c].
ShuffledPatch(C, f, p, order) == [c \in 0 .. C - 1 |-> <<order[c], f, p>>]

\* A validation image, stored whole: all its planes in their order.
WholeImage(C, f) == [c \in 0 .. C - 1 |-> <<c, f>>]

\* The names bound in prepare_data: its parameters and every name it assigns.
PrepareLocals ==
  {"data_path", "val_data_path", "patch_size", "stride", "train_file", "val_file",
   "total_patches", "gray_mode", "types", "files", "tp", "traindbf", "valdbf",
   "train_num", "val_num", "i", "n_files", "patches_per_file", "reminder", "t_file",
   "h5f", "imgor", "img", "patches", "nx", "n_patches", "already_picked", "data",
   "item"}

\* The names bound at module level of dataset.py.
ModuleNames ==
  {"os", "random", "glob", "np", "cv2", "h5py", "torch", "udata", "tqdm",
   "normalize", "img_to_patches", "prepare_data", "Dataset"}

patches_per_file == args.total_patches \div args.n_files

PrepareParked ==
  /\ args = [C |-> 1, n_files |-> 1, total_patches |-> 0]
  /\ n_patches = <<>> /\ train_num = 0 /\ val_num = 0 /\ fi = 0 /\ nx = 0
  /\ reminder = 0 /\ already_picked = FALSE /\ perm = <<>>
  /\ trainStore = <<>> /\ taken = <<>> /\ valStore = <<>> /\ vi = 0
  /\ bpc = "parked" /\ outcome = "running" /\ retval = <<>>

\* Lines 70-86: n >= 1 files found, an empty training store.
PrepareInit ==
  /\ args \in [C : Channels, n_files : 1 .. MaxFiles, total_patches : 0 .. MaxTotal]
  /\ n_patches = <<>>
  /\ train_num = 0 /\ val_num = 0 /\ fi = 0 /\ nx = 0
  /\ reminder = args.total_patches % args.n_files
  /\ already_picked = FALSE
  /\ perm = <<>>
  /\ trainStore = <<>> /\ taken = <<>>
  /\ valStore = <<>> /\ vi = 0
  /\ bpc = "train" /\ outcome = "running" /\ retval = <<>>

\* Lines 87-104: read file i, extract its patches, shuffle, reset nx.
TrainFileBegin ==
  /\ UNCHANGED notPrepare
  /\ bpc = "train"
  /\ fi < args.n_files
  /\ \E np \in 1 .. MaxPatches : n_patches' = Append(n_patches, np)
  /\ perm' \in Perms(args.C)
  /\ nx' = 0
  /\ already_picked' = FALSE
  /\ bpc' = "inner"
  /\ UNCHANGED <<args, train_num, val_num, fi, reminder, trainStore, taken, valStore,
                 vi, outcome, retval>>

\* Lines 105-113: one iteration of the inner while loop.
TrainWrite ==
  /\ UNCHANGED notPrepare
  /\ bpc = "inner"
  /\ nx < n_patches[fi + 1] /\ nx < patches_per_file
  /\ trainStore' = Append(trainStore, ShuffledPatch(args.C, fi + 1, nx, perm))
  /\ taken' = Append(taken, <<fi + 1, nx>>)
  /\ train_num' = train_num + 1
  /\ IF reminder > 0 /\ ~already_picked
       THEN reminder' = reminder - 1 /\ already_picked' = TRUE /\ nx' = nx
       ELSE nx' = nx + 1 /\ UNCHANGED <<reminder, already_picked>>
  /\ UNCHANGED <<args, n_patches, val_num, fi, perm, valStore, vi, bpc, outcome, retval>>

\* Lines 105, 114-115: the inner loop ends, i += 1.
TrainFileEnd ==
  /\ UNCHANGED notPrepare
  /\ bpc = "inner"
  /\ ~(nx < n_patches[fi + 1] /\ nx < patches_per_file)
  /\ fi' = fi + 1
  /\ bpc' = "train"
  /\ UNCHANGED <<args, n_patches, train_num, val_num, nx, reminder, already_picked, perm,
                 trainStore, taken, valStore, vi, outcome, retval>>

\* Lines 87, 116-119: the outer loop ends.
TrainDone ==
  /\ UNCHANGED notPrepare
  /\ bpc = "train"
  /\ ~(fi < args.n_files)
  /\ bpc' = "val"
  /\ UNCHANGED <<args, n_patches, train_num, val_num, fi, nx, reminder, already_picked,
                 perm, trainStore, taken, valStore, vi, outcome, retval>>

\* Lines 120-121: val_data_path is None, no validation store is built.
ValSkip ==
  /\ UNCHANGED notPrepare
  /\ bpc = "val"
  /\ bpc' = "total"
  /\ UNCHANGED <<args, n_patches, train_num, val_num, fi, nx, reminder, already_picked,
                 perm, trainStore, taken, valStore, vi, outcome, retval>>

\* Lines 122-128: val_data_path is given: its files are listed (vi counts the
\* ones still to store) and the validation store is opened with mode 'w'.
ValOpen ==
  /\ UNCHANGED notPrepare
  /\ bpc = "val"
  /\ vi' \in 0 .. MaxVal
  /\ valStore' = <<>>
  /\ val_num' = 0
  /\ bpc' = "valloop"
  /\ UNCHANGED <<args, n_patches, train_num, fi, nx, reminder, already_picked, perm,
                 trainStore, taken, outcome, retval>>

\* Lines 129-140: one validation image is stored whole under key str(val_num).
ValWrite ==
  /\ UNCHANGED notPrepare
  /\ bpc = "valloop"
  /\ vi > 0
  /\ valStore' = Append(valStore, WholeImage(args.C, val_num + 1))
  /\ val_num' = val_num + 1
  /\ vi' = vi - 1
  /\ UNCHANGED <<args, n_patches, train_num, fi, nx, reminder, already_picked, perm,
                 trainStore, taken, bpc, outcome, retval>>

\* Line 141: h5f.close().
ValClose ==
  /\ UNCHANGED notPrepare
  /\ bpc = "valloop"
  /\ vi = 0
  /\ bpc' = "total"
  /\ UNCHANGED <<args, n_patches, train_num, val_num, fi, nx, reminder, already_picked,
                 perm, trainStore, taken, valStore, vi, outcome, retval>>

\* Lines 143-145: the summary.  Line 144 evaluates the name train_patches; a
\* name bound nowhere raises NameError.  The function has no return statement:
\* were the prints to succeed, it would return None (retval stays <<>>).
PrintTotal ==
  /\ UNCHANGED notPrepare
  /\ bpc = "total"
  /\ outcome' = IF "train_patches" \in PrepareLocals \cup ModuleNames
                  THEN "returned" ELSE "NameError"
  /\ bpc' = "done"
  /\ UNCHANGED <<args, n_patches, train_num, val_num, fi, nx, reminder, already_picked,
                 perm, trainStore, taken, valStore, vi, retval>>

PrepareNext ==
  \/ TrainFileBegin \/ TrainWrite \/ TrainFileEnd \/ TrainDone
  \/ ValSkip \/ ValOpen \/ ValWrite \/ ValClose \/ PrintTotal

(***************************************************************************)
(* class Dataset: __init__, __len__, __getitem__, on a store that          *)
(* prepare_data wrote (keys str(0), str(1), ... in write order).           *)
(***************************************************************************)

\* str(n) for n >= 0: the character codes of its decimal digits.
RECURSIVE Str(_)
Str(n) == IF n < 10 THEN <<48 + n>> ELSE Append(Str(n \div 10), 48 + (n % 10))

\* a < b for two strings, compared byte by byte as HDF5 compares link names.
RECURSIVE StrLess(_, _)
StrLess(a, b) ==
  IF b = <<>> THEN FALSE
  ELSE IF a = <<>> THEN TRUE
  ELSE IF Head(a) = Head(b) THEN StrLess(Tail(a), Tail(b))
  ELSE Head(a) < Head(b)

\* The names of S in increasing order.
RECURSIVE SortNames(_)
SortNames(S) ==
  IF S = {} THEN <<>>
  ELSE LET m == CHOOSE x \in S : \A y \in S \ {x} : StrLess(x, y)
       IN  <<m>> \o SortNames(S \ {m})

\* The data prepare_data stores as its n-th entry (n >= 0): every entry has
\* a content of its own.
EntryData(n) == 500 + n

\* h5f[key]: the value stored under key.
Lookup(store, key) ==
  LET j == CHOOSE j \in 1 .. Len(store) : store[j].key = key IN store[j].value

\* The keys in creation order, as a file written with track_order would give.
H5KeysCreationOrder(store) == [j \in 1 .. Len(store) |-> store[j].key]

\* list(h5f.keys()) of a file written without track_order: h5py iterates a
\* group by its link-name index, in increasing name order.
H5Keys(store) == SortNames({store[j].key : j \in 1 .. Len(store)})

\* The orders random.shuffle can give to a list.
Shuffles(s) ==
  {[j \in 1 .. Len(s) |-> s[f[j - 1] + 1]] : f \in Perms(Len(s))}

\* A subscript that rejects every negative index.
ListIndexNoNegative(n, idx) == IF 0 <= idx /\ idx < n THEN idx ELSE -1

\* The position a Python list of length n gives to subscript idx, -1 where it
\* raises IndexError: a negative subscript counts from the end.
ListIndex(n, idx) ==
  IF 0 <= idx /\ idx < n THEN idx
  ELSE IF -n <= idx /\ idx < 0 THEN n + idx
  ELSE -1

DatasetParked ==
  /\ dsStore = <<>> /\ keys = <<>> /\ shuffle = FALSE /\ openHandles = 0
  /\ index = 0 /\ got = [kind |-> "none", value |-> 0] /\ dpc = "parked"

DatasetInit ==
  /\ dsStore = <<>> /\ keys = <<>> /\ shuffle = FALSE /\ openHandles = 0
  /\ index = 0 /\ got = [kind |-> "none", value |-> 0] /\ dpc = "build"

\* prepare_data, line 107 (line 139 for a validation store):
\* h5f.create_dataset(str(train_num), data=data); train_num += 1.
BuildWrite ==
  /\ UNCHANGED notDataset
  /\ dpc = "build"
  /\ Len(dsStore) < MaxEntries
  /\ dsStore' = Append(dsStore, [key |-> Str(Len(dsStore)), value |-> EntryData(Len(dsStore))])
  /\ UNCHANGED <<keys, shuffle, openHandles, index, got, dpc>>

\* Dataset.__init__, lines 160-166: open the file, read its keys.
InitOpen ==
  /\ UNCHANGED notDataset
  /\ dpc = "build"
  /\ shuffle' \in {b \in BOOLEAN : b => Len(dsStore) <= MaxShuffled}
  /\ openHandles' = openHandles + 1
  /\ keys' = H5Keys(dsStore)
  /\ dpc' = "init"
  /\ UNCHANGED <<dsStore, index, got>>

\* Dataset.__init__, lines 168-170: shuffle if asked, close the file.
InitClose ==
  /\ UNCHANGED notDataset
  /\ dpc = "init"
  /\ keys' \in (IF shuffle THEN Shuffles(keys) ELSE {keys})
  /\ openHandles' = openHandles - 1
  /\ dpc' = "idle"
  /\ UNCHANGED <<dsStore, shuffle, index, got>>

\* Dataset.__len__
DatasetLen == Len(keys)

\* Dataset.__getitem__, line 183: h5f = h5py.File(self.dbf, 'r').
GetOpen ==
  /\ UNCHANGED notDataset
  /\ dpc = "idle"
  /\ openHandles < MaxOpen
  /\ index' \in -(DatasetLen + IndexSlack) .. (DatasetLen - 1 + IndexSlack)
  /\ openHandles' = openHandles + 1
  /\ got' = [kind |-> "pending", value |-> 0]
  /\ dpc' = "lookup"
  /\ UNCHANGED <<dsStore, keys, shuffle>>

\* Line 184: key = self.keys[index].  An IndexError leaves the method here:
\* line 186 is not run.
GetLookup ==
  /\ UNCHANGED notDataset
  /\ dpc = "lookup"
  /\ IF ListIndex(DatasetLen, index) = -1
       THEN got' = [kind |-> "IndexError", value |-> 0] /\ dpc' = "idle"
       ELSE dpc' = "read" /\ got' = got
  /\ UNCHANGED <<dsStore, keys, shuffle, openHandles, index>>

\* Lines 185-187: read the value, close the file, return the tensor.
GetRead ==
  /\ UNCHANGED notDataset
  /\ dpc = "read"
  /\ got' = [kind  |-> "returned",
             value |-> Lookup(dsStore, keys[ListIndex(DatasetLen, index) + 1])]
  /\ openHandles' = openHandles - 1
  /\ dpc' = "idle"
  /\ UNCHANGED <<dsStore, keys, shuffle, index>>

DatasetNext == BuildWrite \/ InitOpen \/ InitClose \/ GetOpen \/ GetLookup \/ GetRead

(***************************************************************************)
(* estimate_noise(image_list, method, wiener_kernel_size, convert2ycbcr,   *)
(*                wavelet_method)                                          *)
(* An image is its pixels in flat order.  A float is "nan", "inf", "-inf"  *)
(* or a finite value.                                                      *)
(***************************************************************************)

\* The members of the enum Estimator.
Estimator == {"WIENER", "WAVELET"}

\* Values a caller can pass as method: the members, the string 'wiener', None.
Methods == Estimator \cup {"'wiener'", "None"}

wavelet_options == {"BayesShrink", "VisuShrink"}

\* Values a caller can pass as wavelet_method.
WaveletMethods == wavelet_options \cup {"SureShrink"}

\* The noisy images of a batch element.
Images == [1 .. 2 -> {"0", "1"}]

\* What wiener or denoise_wavelet can return for such an image.
FilterResults == [1 .. 2 -> {"0.5", "nan", "inf", "-inf"}]

\* IEEE addition, finite results kept as "fin".
FAdd(a, b) ==
  IF a = "nan" \/ b = "nan" THEN "nan"
  ELSE IF {a, b} = {"inf", "-inf"} THEN "nan"
  ELSE IF a = "inf" \/ b = "inf" THEN "inf"
  ELSE IF a = "-inf" \/ b = "-inf" THEN "-inf"
  ELSE "fin"

\* np.sum(a)
RECURSIVE SumFrom(_, _)
SumFrom(a, p) == IF p > Len(a) THEN "fin" ELSE FAdd(a[p], SumFrom(a, p + 1))

NpSum(a) == SumFrom(a, 1)

\* skimage's estimate_sigma(image): a value the image determines, here positive.
EstimateSigma(image) == 1 + Cardinality({p \in DOMAIN image : image[p] = "1"})

\* A validation that omits the wavelet_method check.
ConfigRejectedNoWaveletCheck(m, wm) == m \notin Estimator

\* Lines 262-266: the two assert False branches.
ConfigRejected(m, wm) ==
  IF m \notin Estimator THEN TRUE
  ELSE m = "WAVELET" /\ wm \notin wavelet_options

\* A fallback that zeroes sigma and keeps the NaN result.
SampleResultKeepFiltered(image, filtered) ==
  [filtered |-> filtered, sigma |-> IF NpSum(filtered) = "nan" THEN 0 ELSE EstimateSigma(image)]

\* Lines 298-306: what is stored for one sample.
SampleResult(image, filtered) ==
  LET array_has_nan == NpSum(filtered) = "nan"
  IN  [filtered |-> IF array_has_nan THEN image ELSE filtered,
       sigma    |-> IF ~array_has_nan THEN EstimateSigma(image) ELSE 0]

NoiseParked ==
  /\ method = "WIENER" /\ wavelet_method = "BayesShrink" /\ image_list = <<>>
  /\ raw = <<>> /\ filtered_images = <<>> /\ noises = <<>>
  /\ ni = 0 /\ reads = 0 /\ npc = "parked"

\* A call on a batch of 1..MaxBatch images.
NoiseInit ==
  /\ method \in Methods
  /\ wavelet_method \in WaveletMethods
  /\ image_list \in UNION {[1 .. n -> Images] : n \in 1 .. MaxBatch}
  /\ raw = <<>> /\ filtered_images = <<>> /\ noises = <<>>
  /\ ni = 0 /\ reads = 0 /\ npc = "start"

\* Lines 260-266.
NoiseValidate ==
  /\ UNCHANGED notNoise
  /\ npc = "start"
  /\ npc' = IF ConfigRejected(method, wavelet_method) THEN "AssertionError" ELSE "alloc"
  /\ UNCHANGED <<method, wavelet_method, image_list, raw, filtered_images, noises, ni, reads>>

\* Lines 269-288: the shape is read and the two output arrays are allocated
\* (np.ndarray leaves them uninitialised).
NoiseAlloc ==
  /\ UNCHANGED notNoise
  /\ npc = "alloc"
  /\ filtered_images' = [j \in 1 .. Len(image_list) |-> <<>>]
  /\ noises' = [j \in 1 .. Len(image_list) |-> -1]
  /\ ni' = 0
  /\ npc' = "loop"
  /\ UNCHANGED <<method, wavelet_method, image_list, raw, reads>>

\* Lines 290-309: one iteration of the loop over the samples.
NoiseIter ==
  /\ UNCHANGED notNoise
  /\ npc = "loop"
  /\ ni < Len(image_list)
  /\ reads' = reads + 1
  /\ \E filtered \in FilterResults :
       LET r == SampleResult(image_list[ni + 1], filtered)
       IN  /\ raw' = Append(raw, filtered)
           /\ filtered_images' = [filtered_images EXCEPT ![ni + 1] = r.filtered]
           /\ noises' = [noises EXCEPT ![ni + 1] = r.sigma]
  /\ ni' = ni + 1
  /\ UNCHANGED <<method, wavelet_method, image_list, npc>>

\* Line 311: return (filtered_images, noises).
NoiseReturn ==
  /\ UNCHANGED notNoise
  /\ npc = "loop"
  /\ ~(ni < Len(image_list))
  /\ npc' = "returned"
  /\ UNCHANGED <<method, wavelet_method, image_list, raw, filtered_images, noises, ni, reads>>

NoiseNext == NoiseValidate \/ NoiseAlloc \/ NoiseIter \/ NoiseReturn

(***************************************************************************)
(* The specifications, one per component.                                  *)
(***************************************************************************)
InitPatches == PatchInit /\ PrepareParked /\ DatasetParked /\ NoiseParked
NextPatches == PatchNext
SpecPatches == InitPatches /\ [][NextPatches]_vars

InitPrepare == PatchParked /\ PrepareInit /\ DatasetParked /\ NoiseParked
NextPrepare == PrepareNext
SpecPrepare == InitPrepare /\ [][NextPrepare]_vars

InitDataset == PatchParked /\ PrepareParked /\ DatasetInit /\ NoiseParked
NextDataset == DatasetNext
SpecDataset == InitDataset /\ [][NextDataset]_vars

InitNoise == PatchParked /\ PrepareParked /\ DatasetParked /\ NoiseInit
NextNoise == NoiseNext
SpecNoise == InitNoise /\ [][NextNoise]_vars

Init == InitPatches \/ InitPrepare \/ InitDataset \/ InitNoise
Next == NextPatches \/ NextPrepare \/ NextDataset \/ NextNoise
Spec == Init /\ [][Next]_vars

(***************************************************************************)
(* The claims.                                                             *)
(***************************************************************************)

\* C1 (as stated): once the training loop of prepare_data has ended, the
\* number of entries written to the initially empty training store is exactly
\* total_patches, whatever total_patches >= 0, n_files >= 1 and the per-file
\* patch counts >= 1 are.
C1_StoredEqualsTotal ==
  bpc \in {"val", "valloop", "total", "done"} =>
    /\ Len(trainStore) = args.total_patches
    /\ train_num = args.total_patches

\* C2: img_to_patches returns an array of shape (C, win, win, N) with
\* N = ((H-win)//s + 1) * ((W-win)//s + 1), whose patch r*cols + q is the window
\* of the image with top-left corner (r*s, q*s):
\* result[c, a, b, r*cols + q] = image[c, r*s + a, q*s + b].
C2_PatchGrid ==
  ppc = "returned" =>
    LET C    == shape[1]
        rows == ((shape[2] - win) \div stride) + 1
        cols == ((shape[3] - win) \div stride) + 1
    IN  /\ ret.shape = <<C, win, win, rows * cols>>
        /\ DOMAIN ret.data =
             (0 .. C - 1) \X (0 .. win - 1) \X (0 .. win - 1) \X (0 .. rows * cols - 1)
        /\ \A c \in 0 .. C - 1, a \in 0 .. win - 1, b \in 0 .. win - 1,
              r \in 0 .. rows - 1, q \in 0 .. cols - 1 :
              ret.data[<<c, a, b, r * cols + q>>] = Pixel(c, r * stride + a, q * stride + b)

\* C2 witness: a returned call on a 3x4x4 image with 2x2 windows at stride 2:
\* four patches, the last one with its corner at (2, 2).
C2_Witness ==
  /\ ppc = "returned"
  /\ shape = <<3, 4, 4>> /\ win = 2 /\ stride = 2
  /\ ret.shape = <<3, 2, 2, 4>>
  /\ ret.data[<<2, 1, 0, 3>>] = Pixel(2, 3, 2)

\* C3 (as stated): a prepare_data run in which every read and write succeeds
\* completes normally and returns the pair (train_count, val_count).
C3_ReturnsCounts ==
  bpc = "done" =>
    /\ outcome = "returned"
    /\ retval = <<Len(trainStore), Len(valStore)>>

\* The number of keys of the store that sort before key, byte by byte.
NamesBefore(store, key) ==
  Cardinality({j \in 1 .. Len(store) : StrLess(store[j].key, key)})

\* A __getitem__ call on a handle opened with shuffle = False has returned
\* for an index in 0..len-1.
GetReturnedUnshuffled ==
  /\ dpc = "idle" /\ ~shuffle /\ got.kind = "returned"
  /\ 0 <= index /\ index < DatasetLen

\* C4 (as stated): on a handle opened with shuffle = False, get(handle, i)
\* returns the entry the builder wrote i-th, the value stored under str(i).
C4_InsertionOrder ==
  GetReturnedUnshuffled =>
    /\ got.value = dsStore[index + 1].value
    /\ got.value = Lookup(dsStore, Str(index))

\* C4 (amended): on a handle opened with shuffle = False, get(handle, i)
\* returns the value stored under the key that has exactly i keys of the store
\* before it in byte-wise name order; that is the i-th entry written whenever
\* the store holds at most 10 entries.
C4_NameOrder ==
  GetReturnedUnshuffled =>
    /\ \E j \in 1 .. Len(dsStore) :
         /\ NamesBefore(dsStore, dsStore[j].key) = index
         /\ got.value = dsStore[j].value
    /\ Len(dsStore) <= 10 => got.value = dsStore[index + 1].value

\* C4 witness: on a store of 11 entries, index 2 gave the entry under "10".
C4_Witness ==
  /\ GetReturnedUnshuffled
  /\ Len(dsStore) >= 11
  /\ index = 2
  /\ got.value = Lookup(dsStore, Str(10))

\* Some element of the array is NaN.
HasNaN(a) == \E p \in DOMAIN a : a[p] = "nan"

\* Every element of the array is finite.
AllFinite(a) == \A p \in DOMAIN a : a[p] \notin {"nan", "inf", "-inf"}

\* C5: for every sample whose filtered result contains a NaN the sigma is
\* exactly 0 and the returned clean image is the input noisy image; the
\* fallback is per sample: a sample whose filtered result is finite gets the
\* estimator's sigma and the filtered image, whatever the other samples of
\* the batch gave.
C5_NaNFallback ==
  \A j \in 1 .. Len(raw) :
    /\ HasNaN(raw[j]) =>
         /\ noises[j] = 0
         /\ filtered_images[j] = image_list[j]
    /\ AllFinite(raw[j]) =>
         /\ noises[j] = EstimateSigma(image_list[j])
         /\ filtered_images[j] = raw[j]

\* C5 witness: a returned batch of two whose first sample fell back and whose
\* second kept its filtered image.
C5_Witness ==
  /\ npc = "returned"
  /\ Len(raw) = 2
  /\ HasNaN(raw[1]) /\ noises[1] = 0 /\ filtered_images[1] = image_list[1]
  /\ AllFinite(raw[2]) /\ noises[2] > 0 /\ filtered_images[2] = raw[2]

\* The call has failed, or not yet begun, with no image read and no output.
FailedBeforeAnyWork ==
  /\ npc \in {"start", "AssertionError"}
  /\ reads = 0 /\ raw = <<>>
  /\ filtered_images = <<>> /\ noises = <<>>

\* C6 (as stated): with a method that is no recognized estimator, or a
\* wavelet_method that is no recognized shrinkage variant, estimate_noise
\* fails before any image is read and produces no output, for every
\* combination of method and wavelet_method.
C6_AnyBadValueFails ==
  (method \notin Estimator \/ wavelet_method \notin wavelet_options) => FailedBeforeAnyWork

\* C6 (amended): with a method that is no recognized estimator, or with the
\* wavelet estimator and a wavelet_method that is no recognized variant,
\* estimate_noise fails before any image is read and produces no output; with
\* the Wiener estimator wavelet_method is not checked and the call does not
\* fail on it.
C6_CheckedValueFails ==
  /\ (method \notin Estimator \/ (method = "WAVELET" /\ wavelet_method \notin wavelet_options))
       => FailedBeforeAnyWork
  /\ method = "WIENER" => npc # "AssertionError"

\* C6 witness: the wavelet estimator with an unknown variant has failed.
C6_Witness ==
  /\ npc = "AssertionError"
  /\ method = "WAVELET" /\ wavelet_method = "SureShrink"
  /\ reads = 0

\* A __getitem__ call has ended.
GetEnded == dpc = "idle" /\ got.kind \in {"returned", "IndexError"}

\* C7 (as stated): get(handle, index) with any index outside 0..N-1,
\* negative or >= N, fails with an out-of-bounds error and returns no entry.
C7_OutsideRangeFails ==
  (GetEnded /\ (index < 0 \/ index >= DatasetLen)) => got.kind = "IndexError"

\* C7 (amended): get(handle, index) fails with an out-of-bounds error and
\* returns no entry when index >= N or index < -N; an index in -N..-1 counts
\* from the end and returns the entry at position N + index.
C7_PythonIndexing ==
  GetEnded =>
    /\ (index >= DatasetLen \/ index < -DatasetLen) => got.kind = "IndexError"
    /\ (-DatasetLen <= index /\ index < 0) =>
         /\ got.kind = "returned"
         /\ got.value = Lookup(dsStore, keys[DatasetLen + index + 1])
    /\ (0 <= index /\ index < DatasetLen) =>
         /\ got.kind = "returned"
         /\ got.value = Lookup(dsStore, keys[index + 1])

\* C7 witness: on a handle of at least two entries, an index below -N failed.
C7_Witness ==
  /\ GetEnded
  /\ DatasetLen >= 2
  /\ index < -DatasetLen
  /\ got.kind = "IndexError"

\* C8 (as stated): between calls of Dataset's constructor and __getitem__,
\* failed calls included, no store file handle is open.
C8_NoHandleBetweenCalls ==
  dpc = "idle" => openHandles = 0

\* C9 (as stated): every entry written to the training store is identical,
\* channel for channel, to one of the patches img_to_patches returned for the
\* file it was taken from.
C9_EntriesAreExtractedPatches ==
  \A j \in 1 .. Len(trainStore) :
    \E p \in 0 .. n_patches[taken[j][1]] - 1 :
      trainStore[j] = ExtractedPatch(args.C, taken[j][1], p)

\* C10 (as stated): within one file, the entries stored are taken from
\* pairwise distinct positions of the file's patch sequence.
C10_DistinctPositions ==
  \A a, b \in 1 .. Len(taken) : a # b => taken[a] # taken[b]

=============================================================================
